---- MODULE Spec2Model ----
(***************************************************************************)
(* appbase::application -- the plugin lifecycle orchestrator, its registry *)
(* and the signal-driven event loop (src/application.cpp).                 *)
(*                                                                         *)
(* The host thread is the only thread: it calls the public operations      *)
(* (register_plugin, initialize, startup, shutdown, exec, quit) one after  *)
(* the other.  `pc` is its position: "idle" between two operations, a      *)
(* position inside the operation it is running, or "done" when the         *)
(* operation has ended and its outcome can be observed.  The operating     *)
(* system delivers SIGINT/SIGTERM asynchronously; a delivered signal only  *)
(* queues the completion handler of the armed wait.                        *)
(***************************************************************************)
EXTENDS Integers, Sequences, FiniteSets, TLC

\* ------------------------------------------------------------------ bounds
MaxAuto == 1      \* length of the autostart list

\* ------------------------------------------------------------- vocabulary
\* A string is a sequence of characters.  Plugin names are one character long.
PluginNames == {<<"A">>, <<"B">>, <<"C">>}
Delims == {" ", "\t", ","}
Signals == {"SIGINT", "SIGTERM"}
NULL == <<"nullptr">>

VARIABLES
    plugins,              \* name -> lifecycle state of the plugin the registry owns
    initialized_plugins,  \* plugins that completed initialize, in that order
    running_plugins,      \* plugins that completed startup, in that order
    stopped,              \* io_service: a stop request was issued
    armed,                \* signals with an outstanding async wait
    ready,                \* signals whose completion handler is queued
    pc,                   \* position of the host thread
    idx,                  \* loop counter of the operation in progress
    todo,                 \* initialize: names still to be resolved
    autos,                \* initialize: autostart entries still to be visited
    op,                   \* the operation in progress or just ended
    result,               \* how the operation ended
    calls,                \* plugin interface calls made by the operation, in order
    req,                  \* initialize: all names requested by the plugin option
    autoreq,              \* initialize: the autostart list passed in
    entry,                \* the registry as the operation found it
    in_loop,              \* exec: io_serv->run() has not returned yet
    passes,               \* shutdown passes begun by the operation
    prev,                 \* the operation that ended before this one
    app_options,          \* _app_options: the groups every option is looked up in
    cfg_options,          \* _cfg_options: the groups valid in the config file
    data_dir,             \* _data_dir
    files,                \* the file system: path -> content of the file there
    order,                \* the plugins in the order they were registered
    cmdline,              \* initialize: the command line passed in
    config_file_name,     \* initialize: the config file checked, written, parsed
    described,            \* initialize: plugins asked for their options, in order
    printed,              \* initialize: what was written to standard output
    entry_files           \* the file system as initialize found it

vars == <<plugins, initialized_plugins, running_plugins, stopped, armed, ready,
          pc, idx, todo, autos, op, result, calls, req, autoreq, entry,
          in_loop, passes, prev,
          app_options, cfg_options, data_dir, files, order, cmdline,
          config_file_name, described, printed, entry_files>>

registry == <<plugins, initialized_plugins, running_plugins>>
loopvars == <<stopped, armed, ready>>
initvars == <<todo, autos, req, autoreq>>
observed == <<op, calls, entry, prev>>

\* The option schema, the data directory and the file system, with what is
\* observed of one initialize call on them.
configvars == <<app_options, cfg_options, data_dir, files, order, cmdline,
                config_file_name, described, printed, entry_files>>

\* ---------------------------------------------------------------- helpers
Range(s) == {s[k] : k \in 1..Len(s)}

RECURSIVE Reverse(_)
Reverse(s) == IF s = <<>> THEN <<>> ELSE Append(Reverse(Tail(s)), Head(s))

RECURSIVE Concat(_)
Concat(ss) == IF ss = <<>> THEN <<>> ELSE Head(ss) \o Concat(Tail(ss))

RECURSIVE SeqOf(_)
SeqOf(S) == IF S = {} THEN <<>>
            ELSE LET x == CHOOSE y \in S : TRUE IN <<x>> \o SeqOf(S \ {x})

NoDuplicates(s) == \A j, k \in 1..Len(s) : j # k => s[j] # s[k]

IsPrefix(s, t) == Len(s) <= Len(t) /\ \A k \in 1..Len(s) : s[k] = t[k]

Snapshot == [plugins |-> plugins, initialized |-> initialized_plugins,
             running |-> running_plugins]
NoSnapshot == [plugins |-> << >>, initialized |-> <<>>, running |-> <<>>]

\* Cut s at every character of seps: n separators give n+1 pieces, empty
\* pieces included.
RECURSIVE SplitFrom(_, _, _, _)
SplitFrom(s, seps, cur, acc) ==
    IF s = <<>> THEN Append(acc, cur)
    ELSE IF Head(s) \in seps
         THEN SplitFrom(Tail(s), seps, <<>>, Append(acc, cur))
         ELSE SplitFrom(Tail(s), seps, Append(cur, Head(s)), acc)

\* boost::split(names, arg, boost::is_any_of(" \t,")); token_compress is off.
split(arg) == SplitFrom(arg, Delims, <<>>, <<>>)

\* Values given to the plugin option: one name, several names with each of
\* the delimiters, a name twice, a name that is no plugin's, empty names.
OptionValues ==
    { <<>>,
      <<"A">>,
      <<"A", ",", "B">>, <<"B", ",", "A">>,
      <<"A", ",", "A">>,
      <<"A", " ", "B">>,
      <<"A", ",", ",", "B">>,
      <<"A", "B">>,
      <<"C", "\t", "B", ",", "A">> }

\* The plugin option is absent, given once, or given twice.
ArgLists ==
    {<<>>} \cup {<<v>> : v \in OptionValues} \cup {<<<<"B">>, <<"A">>>>}

\* The names visited by the two nested loops over the plugin option, in order.
RequestedNames(args) == Concat([k \in 1..Len(args) |-> split(args[k])])

\* ------------------------------------------------------------ the registry
find_plugin(name) == IF name \in DOMAIN plugins THEN name ELSE NULL

\* A lookup that hands back whatever find_plugin found, null included.
get_plugin_unchecked(name) == FALSE

\* get_plugin(name) throws when find_plugin(name) returns null.
get_plugin_throws(name) == find_plugin(name) = NULL

get_state(p) == IF p \in DOMAIN plugins THEN plugins[p] ELSE "absent"

\* The host has the outcome of the operation and goes on.
Return ==
    /\ pc = "done"
    /\ pc' = "idle"
    /\ prev' = IF op \in {"shutdown", "exec"} /\ result = "returned"
               THEN "shutdown" ELSE "other"
    /\ op' = "none"
    /\ result' = "none"
    /\ calls' = <<>>
    /\ entry' = NoSnapshot
    /\ passes' = 0
    /\ todo' = <<>> /\ autos' = <<>> /\ req' = <<>> /\ autoreq' = <<>>
    /\ UNCHANGED <<registry, loopvars, idx, in_loop>>
    /\ UNCHANGED configvars

\* application::register_plugin<P>(): a plugin already registered is returned as is.
RegisterPlugin(p) ==
    /\ pc = "idle"
    /\ find_plugin(p) = NULL
    /\ plugins' = [q \in DOMAIN plugins \cup {p} |->
                      IF q = p THEN "registered" ELSE plugins[q]]
    /\ prev' = "other"
    /\ UNCHANGED <<initialized_plugins, running_plugins, loopvars, pc, idx,
                   initvars, op, result, calls, entry, in_loop, passes>>
    /\ UNCHANGED configvars

\* --------------------------------------------------- plugin lifecycle calls
\* plugin::initialize(options): acts only on a plugin in state registered;
\* fails (and changes nothing) when the plugin's own initialize fails.
plugin_initialize(p, ok) ==
    IF get_state(p) = "registered" /\ ok
    THEN /\ plugins' = [plugins EXCEPT ![p] = "initialized"]
         /\ initialized_plugins' = Append(initialized_plugins, p)
         /\ UNCHANGED running_plugins
    ELSE UNCHANGED registry

\* plugin::startup(): acts only on a plugin in state initialized.
plugin_startup(p, ok) ==
    IF get_state(p) = "initialized" /\ ok
    THEN /\ plugins' = [plugins EXCEPT ![p] = "started"]
         /\ running_plugins' = Append(running_plugins, p)
         /\ UNCHANGED initialized_plugins
    ELSE UNCHANGED registry

\* The call raises the failure of the plugin's own initialize or startup.
plugin_fails(p, from, ok) == get_state(p) = from /\ ~ok

\* ----------------------------------------------------------- initialize
\* The names visited last to first.
names_order_backwards(names) == Reverse(names)

\* The order in which the names of the plugin option are visited.
names_order(names) == names

\* initialize_impl up to the plugin loops: --help prints the options and
\* returns false before anything else is looked at.  `args` is the value of
\* options.at("plugin") once the command line and the config file are
\* stored; building the option schema and reading the config file do not
\* touch the registry.  InitializeImpl follows the same lines on the option
\* schema and the file system.
Initialize(help, args, autostart) ==
    /\ pc = "idle"
    /\ op' = "initialize"
    /\ calls' = <<>>
    /\ entry' = Snapshot
    /\ IF help
       THEN /\ pc' = "done"
            /\ result' = "false"
            /\ todo' = <<>>
            /\ autos' = <<>>
       ELSE /\ pc' = "initialize"
            /\ result' = "running"
            /\ todo' = names_order(RequestedNames(args))
            /\ autos' = autostart
    /\ req' = RequestedNames(args)
    /\ autoreq' = autostart
    /\ UNCHANGED <<registry, loopvars, idx, in_loop, passes, prev>>
    /\ UNCHANGED configvars

\* for(const std::string& name : names) get_plugin(name).initialize(options);
InitializeName ==
    /\ pc = "initialize"
    /\ todo # <<>>
    /\ LET name == Head(todo) IN
       IF get_plugin_throws(name)
       THEN /\ pc' = "done"
            /\ result' = "not_found"
            /\ UNCHANGED <<registry, todo, calls>>
       ELSE \E ok \in BOOLEAN :
            /\ plugin_initialize(name, ok)
            /\ calls' = Append(calls, <<"initialize", name>>)
            /\ IF plugin_fails(name, "registered", ok)
               THEN /\ pc' = "done"
                    /\ result' = "plugin_error"
                    /\ UNCHANGED todo
               ELSE /\ todo' = Tail(todo)
                    /\ UNCHANGED <<pc, result>>
    /\ UNCHANGED <<loopvars, idx, autos, op, req, autoreq, entry, in_loop,
                   passes, prev>>
    /\ UNCHANGED configvars

\* Every entry that is not null, whatever the state of its plugin.
autostart_not_null(plugin) == plugin # NULL

\* if (plugin != nullptr && plugin->get_state() == abstract_plugin::registered)
autostart_selected(plugin) == plugin # NULL /\ get_state(plugin) = "registered"

InitializeAutostart ==
    /\ pc = "initialize"
    /\ todo = <<>>
    /\ autos # <<>>
    /\ LET plugin == Head(autos) IN
       IF autostart_selected(plugin)
       THEN \E ok \in BOOLEAN :
            /\ plugin_initialize(plugin, ok)
            /\ calls' = Append(calls, <<"initialize", plugin>>)
            /\ IF plugin_fails(plugin, "registered", ok)
               THEN /\ pc' = "done"
                    /\ result' = "plugin_error"
                    /\ UNCHANGED autos
               ELSE /\ autos' = Tail(autos)
                    /\ UNCHANGED <<pc, result>>
       ELSE /\ autos' = Tail(autos)
            /\ UNCHANGED <<registry, calls, pc, result>>
    /\ UNCHANGED <<loopvars, idx, todo, op, req, autoreq, entry, in_loop,
                   passes, prev>>
    /\ UNCHANGED configvars

InitializeReturn ==
    /\ pc = "initialize"
    /\ todo = <<>>
    /\ autos = <<>>
    /\ pc' = "done"
    /\ result' = "true"
    /\ UNCHANGED <<registry, loopvars, idx, initvars, observed, in_loop, passes>>
    /\ UNCHANGED configvars

\* -------------------------------------------------------------- startup
\* Every plugin of the registry, whatever its state.
startup_range_registry == SeqOf(DOMAIN plugins)

\* The initialized plugins, last to first.
startup_range_backwards == Reverse(initialized_plugins)

\* for (auto plugin : initialized_plugins)
startup_range == initialized_plugins

Startup ==
    /\ pc = "idle"
    /\ pc' = "startup"
    /\ op' = "startup"
    /\ result' = "running"
    /\ calls' = <<>>
    /\ entry' = Snapshot
    /\ idx' = 1
    /\ UNCHANGED <<registry, loopvars, initvars, in_loop, passes, prev>>
    /\ UNCHANGED configvars

StartupStep ==
    /\ pc = "startup"
    /\ IF idx <= Len(startup_range)
       THEN LET plugin == startup_range[idx] IN
            \E ok \in BOOLEAN :
            /\ plugin_startup(plugin, ok)
            /\ calls' = Append(calls, <<"startup", plugin>>)
            /\ IF plugin_fails(plugin, "initialized", ok)
               THEN /\ pc' = "done"
                    /\ result' = "plugin_error"
                    /\ idx' = 1
               ELSE /\ idx' = idx + 1
                    /\ UNCHANGED <<pc, result>>
       ELSE /\ pc' = "done"
            /\ result' = "returned"
            /\ idx' = 1
            /\ UNCHANGED <<registry, calls>>
    /\ UNCHANGED <<loopvars, initvars, op, entry, in_loop, passes, prev>>
    /\ UNCHANGED configvars

\* ------------------------------------------------------------- shutdown
\* The k-th element a forward iterator visits.
forward_at(seq, k) == seq[k]

\* The k-th element a reverse iterator visits (rbegin() .. rend()).
reverse_at(seq, k) == seq[Len(seq) + 1 - k]

\* A container whose clear() call is missing keeps its content.
kept_running == running_plugins
kept_initialized == initialized_plugins
kept_plugins == plugins

\* What the three clear() calls leave behind.
cleared_running == <<>>
cleared_initialized == <<>>
cleared_plugins == << >>

Shutdown ==
    /\ pc = "idle"
    /\ pc' = "shutdown_calls"
    /\ op' = "shutdown"
    /\ result' = "running"
    /\ calls' = <<>>
    /\ entry' = Snapshot
    /\ idx' = 1
    /\ passes' = passes + 1
    /\ UNCHANGED <<registry, loopvars, initvars, in_loop, prev>>
    /\ UNCHANGED configvars

\* First loop: (*ritr)->shutdown() for every running plugin.
ShutdownCall ==
    /\ pc = "shutdown_calls"
    /\ IF idx <= Len(running_plugins)
       THEN \E ok \in BOOLEAN :
            /\ calls' = Append(calls, <<"shutdown", reverse_at(running_plugins, idx)>>)
            /\ IF ok
               THEN /\ idx' = idx + 1
                    /\ UNCHANGED <<pc, result>>
               ELSE /\ pc' = "done"
                    /\ result' = "plugin_error"
                    /\ idx' = 1
       ELSE /\ pc' = "shutdown_erase"
            /\ idx' = 1
            /\ UNCHANGED <<calls, result>>
    /\ UNCHANGED <<registry, loopvars, initvars, op, entry, in_loop, passes, prev>>
    /\ UNCHANGED configvars

\* Second loop: plugins.erase((*ritr)->name()); then the three clear() calls.
ShutdownErase ==
    /\ pc = "shutdown_erase"
    /\ IF idx <= Len(running_plugins)
       THEN /\ plugins' = [q \in DOMAIN plugins \ {reverse_at(running_plugins, idx)}
                              |-> plugins[q]]
            /\ idx' = idx + 1
            /\ UNCHANGED <<initialized_plugins, running_plugins, pc, result>>
       ELSE /\ running_plugins' = cleared_running
            /\ initialized_plugins' = cleared_initialized
            /\ plugins' = cleared_plugins
            /\ pc' = "done"
            /\ result' = "returned"
            /\ idx' = 1
    /\ UNCHANGED <<loopvars, initvars, observed, in_loop, passes>>
    /\ UNCHANGED configvars

\* ------------------------------------------------------- the event loop
\* A handler or quit() that leaves the loop alone.
no_stop_request == stopped

\* io_serv->stop()
stop_request == TRUE

\* application::quit(), called by the host outside the loop or by work the
\* loop runs.
Quit ==
    /\ pc \in {"idle", "loop"}
    /\ stopped' = stop_request
    /\ prev' = IF pc = "idle" THEN "other" ELSE prev
    /\ UNCHANGED <<registry, armed, ready, pc, idx, initvars, op, result, calls,
                   entry, in_loop, passes>>
    /\ UNCHANGED configvars

\* exec(): arm a one-shot wait for SIGINT and one for SIGTERM, then run the
\* loop.  The host calls exec() once: nothing ever resets the io_service, so
\* a later run() could only return at once, as it does after an early quit().
Exec ==
    /\ pc = "idle"
    /\ armed \cup ready = {}
    /\ armed' = Signals
    /\ pc' = "loop"
    /\ in_loop' = TRUE
    /\ op' = "exec"
    /\ result' = "running"
    /\ calls' = <<>>
    /\ entry' = Snapshot
    /\ UNCHANGED <<registry, stopped, ready, idx, initvars, passes, prev>>
    /\ UNCHANGED configvars

\* The operating system delivers a signal: the wait armed for it completes
\* and its handler is queued on the io_service.
Signal(s) ==
    /\ s \in armed
    /\ ready' = ready \cup {s}
    /\ armed' = armed \ {s}
    /\ UNCHANGED <<registry, stopped, pc, idx, initvars, op, result, calls,
                   entry, in_loop, passes, prev>>
    /\ UNCHANGED configvars

\* A handler that runs the shutdown pass itself.
after_handler_shutdown == "shutdown_calls"

\* Where the host is when a completion handler has run: back in the loop.
after_handler == "loop"

\* io_serv->run() dispatches one queued handler: quit(); sig_set->cancel();
LoopHandler(s) ==
    /\ pc = "loop"
    /\ ~stopped
    /\ s \in ready
    /\ ready' = ready \ {s}
    /\ stopped' = stop_request
    /\ pc' = after_handler
    /\ idx' = 1
    /\ passes' = IF after_handler = "loop" THEN passes ELSE passes + 1
    /\ UNCHANGED <<registry, armed, initvars, op, result, calls, entry,
                   in_loop, prev>>
    /\ UNCHANGED configvars

\* io_serv->run() returns once the loop is stopped; exec() then calls
\* shutdown().
LoopReturn ==
    /\ pc = "loop"
    /\ stopped
    /\ pc' = "shutdown_calls"
    /\ in_loop' = FALSE
    /\ idx' = 1
    /\ passes' = passes + 1
    /\ UNCHANGED <<registry, loopvars, initvars, op, result, calls, entry, prev>>
    /\ UNCHANGED configvars

\* ------------------------------------------------------ the option schema
\* An option declaration.  semantic is "none" for an option without a
\* default value, "switch" for a boolean switch (default false, no argument)
\* and "value" for an option whose default value has the text `default`.
Option(name, text, sem, def) ==
    [long_name |-> name, description |-> text, semantic |-> sem, default |-> def]

\* plugin::set_program_options(cli, cfg): the options a plugin declares.
\* A and B both declare a config option named "port"; C declares no config
\* option.
declared_cfg(p) ==
    CASE p = <<"A">> -> << Option("port", "port to listen on", "value", <<"8", "0">>) >>
      [] p = <<"B">> -> << Option("port", "", "switch", <<>>),
                           Option("peer", "", "none", <<>>) >>
      [] OTHER -> <<>>

declared_cli(p) ==
    CASE p = <<"B">> -> << Option("replay", "replay the log", "switch", <<>>) >>
      [] p = <<"C">> -> << Option("dump", "", "none", <<>>) >>
      [] OTHER -> <<>>

Group(caption, p, opts) == [caption |-> caption, plugin |-> p, options |-> opts]

plugin_cfg_opts(p) == Group("Config Options for ", p, declared_cfg(p))
plugin_cli_opts(p) == Group("Command Line Options for ", p, declared_cli(p))

app_cfg_opts ==
    Group("Application Config Options", <<>>,
          << Option("plugin", "Plugin(s) to enable, may be specified multiple times",
                    "none", <<>>) >>)

app_cli_opts ==
    Group("Application Command Line Options", <<>>,
          << Option("help", "Print this help message and exit.", "none", <<>>),
             Option("version", "Print version information.", "none", <<>>),
             Option("data-dir", "Directory containing configuration file config.ini",
                    "value", <<"d", "a", "t", "a", "-", "d", "i", "r">>),
             Option("config", "Configuration file name relative to data-dir",
                    "value", <<"c", "o", "n", "f", "i", "g", ".", "i", "n", "i">>) >>)

\* options_description::options(): the declarations of all groups, in the
\* order they were added.
options(desc) == Concat([k \in 1..Len(desc) |-> desc[k].options])

\* `plugins` maps a name to its plugin (plug.second, plugins.find(name),
\* plugins.erase(name)): the range-for visits its entries by ascending name.
KeyOrder == << <<"A">>, <<"B">>, <<"C">> >>
map_order(dom) == SelectSeq(KeyOrder, LAMBDA p : p \in dom)

\* What one pass of the loop adds to _app_options and to _cfg_options.
app_groups_of(p) ==
    (IF declared_cfg(p) # <<>> THEN <<plugin_cfg_opts(p)>> ELSE <<>>)
    \o (IF declared_cli(p) # <<>> THEN <<plugin_cli_opts(p)>> ELSE <<>>)

cfg_groups_of(p) ==
    IF declared_cfg(p) # <<>> THEN <<plugin_cfg_opts(p)>> ELSE <<>>

\* set_program_options(): every add() appends; nothing compares the names.
app_options_after(visit) ==
    app_options \o Concat([k \in 1..Len(visit) |-> app_groups_of(visit[k])])
                \o <<app_cfg_opts, app_cli_opts>>

cfg_options_after(visit) ==
    cfg_options \o Concat([k \in 1..Len(visit) |-> cfg_groups_of(visit[k])])
                \o <<app_cfg_opts>>

\* ------------------------------------------------ paths and the file system
\* A path is the sequence of its components; an absolute path begins with
\* the root "/".
is_relative(path) == path = <<>> \/ Head(path) # "/"

\* bfs::operator/
slash(a, b) == a \o b

current_path == <<"/", "run">>

\* An option that is not on the command line.
NotGiven == <<"(not given)">>

default_data_dir == <<"data-dir">>
default_config == <<"config.ini">>

\* The value the variables map holds for an option with a default value.
stored(given, default) == IF given = NotGiven THEN default ELSE given

\* The data directory: relative values are taken from the current directory.
resolve_data_dir(value) ==
    IF is_relative(value) THEN slash(current_path, value) ELSE value

\* The path the config option stands for.
config_option_path(dir, value) ==
    IF is_relative(value) THEN slash(dir, value) ELSE value

\* The config file initialize_impl goes on with: the block that reads the
\* config option declares a config_file_name of its own (`auto`), which ends
\* with the block, so the outer variable keeps its first value.
config_file(dir, value) ==
    LET outer == slash(dir, <<"config.ini">>)
        inner == config_option_path(dir, value)
    IN  outer

\* A test that never finds a file.
exists_never(path) == FALSE

\* bfs::exists(path)
exists(path) == path \in DOMAIN files

\* ----------------------------------------------------- write_default_config
Comment(text) == [kind |-> "comment", name |-> text, value |-> <<>>]
Commented(name) == [kind |-> "commented", name |-> name, value |-> <<>>]
Entry(name, value) == [kind |-> "entry", name |-> name, value |-> value]
Blank == [kind |-> "blank", name |-> "", value |-> <<>>]

\* semantic()->apply_default(store)
apply_default(od) == od.semantic # "none"

\* od->format_parameter(): empty for a switch, "arg (=<default>)" otherwise.
format_parameter(od) ==
    IF od.semantic = "switch" THEN <<>>
    ELSE <<"a", "r", "g", " ", "(", "=">> \o od.default \o <<")">>

\* std::string::erase(0, n) and erase(length() - 1)
erase_front(str, n) == SubSeq(str, n + 1, Len(str))
erase_last(str) == SubSeq(str, 1, Len(str) - 1)

\* The lines written for one option.
option_lines(od) ==
    (IF od.description # "" THEN <<Comment(od.description)>> ELSE <<>>)
    \o (IF ~apply_default(od)
        THEN <<Commented(od.long_name)>>
        ELSE IF format_parameter(od) = <<>>
             THEN <<Entry(od.long_name, <<"f", "a", "l", "s", "e">>)>>
             ELSE <<Entry(od.long_name,
                          erase_last(erase_front(format_parameter(od), 6)))>>)
    \o <<Blank>>

\* The content written for the schema desc.
config_text(desc) ==
    Concat([k \in 1..Len(options(desc)) |-> option_lines(options(desc)[k])])

\* The file system once write_default_config(cfg_file) has run.
write_default_config(cfg_file, desc) ==
    [path \in DOMAIN files \cup {cfg_file} |->
        IF path = cfg_file THEN config_text(desc) ELSE files[path]]

\* ---------------------------------------------------------- parse and store
\* The settings a config file holds: its lines that are `name = value`.
file_entries(content) == SelectSeq(content, LAMBDA line : line.kind = "entry")

declared(desc, name) ==
    {k \in 1..Len(options(desc)) : options(desc)[k].long_name = name}

\* bpo::store() looks up the declaration of every setting it is given;
\* a name with no declaration is let through (allow_unregistered), a name
\* with more than one is rejected (ambiguous_option).
store_rejects(content, desc) ==
    \E k \in 1..Len(file_entries(content)) :
       Cardinality(declared(desc, file_entries(content)[k].name)) > 1

\* ------------------------------------------- initialize, options and files
\* The command lines of the application's own options: --help, --data-dir,
\* --config and --plugin.
CommandLines ==
    [help : BOOLEAN,
     data_dir : {NotGiven, <<"/", "d">>},
     config : {NotGiven, <<"other.ini">>, <<"/", "etc", "app.ini">>},
     plugin : {<<>>, << <<"A">> >>, << <<"B", ",", "A">> >>}]

NoCommandLine ==
    [help |-> FALSE, data_dir |-> NotGiven, config |-> NotGiven, plugin |-> <<>>]

\* A help option that is never acted on.
help_ignored(cmd) == FALSE

\* options.count("help")
help_requested(cmd) == cmd.help

\* register_plugin<P>() by a host whose registration order is followed.
RegisterInOrder(p) ==
    /\ pc = "idle"
    /\ find_plugin(p) = NULL
    /\ plugins' = [q \in DOMAIN plugins \cup {p} |->
                      IF q = p THEN "registered" ELSE plugins[q]]
    /\ order' = Append(order, p)
    /\ UNCHANGED <<initialized_plugins, running_plugins, loopvars, pc, idx,
                   initvars, observed, result, in_loop, passes>>
    /\ UNCHANGED <<app_options, cfg_options, data_dir, files, cmdline,
                   config_file_name, described, printed, entry_files>>

\* initialize_impl up to the plugin loops, on the option schema and the file
\* system: set_program_options(), the command line, --help, the data
\* directory, the config file (written when it does not exist, then read).
InitializeImpl(cmd, autostart) ==
    /\ pc = "idle"
    /\ LET visit == map_order(DOMAIN plugins)
           app == app_options_after(visit)
           cfg == cfg_options_after(visit)
           dir == resolve_data_dir(stored(cmd.data_dir, default_data_dir))
           file == config_file(dir, stored(cmd.config, default_config))
           written == IF exists(file) THEN files
                      ELSE write_default_config(file, cfg)
       IN
       /\ described' = visit
       /\ app_options' = app
       /\ cfg_options' = cfg
       /\ IF help_requested(cmd)
          THEN /\ printed' = app
               /\ pc' = "done"
               /\ result' = "false"
               /\ todo' = <<>>
               /\ autos' = <<>>
               /\ UNCHANGED <<data_dir, config_file_name, files>>
          ELSE /\ printed' = <<>>
               /\ data_dir' = dir
               /\ config_file_name' = file
               /\ files' = written
               /\ IF store_rejects(written[file], cfg)
                  THEN /\ pc' = "done"
                       /\ result' = "options_error"
                       /\ todo' = <<>>
                       /\ autos' = <<>>
                  ELSE /\ pc' = "initialize"
                       /\ result' = "running"
                       /\ todo' = names_order(RequestedNames(cmd.plugin))
                       /\ autos' = autostart
    /\ op' = "initialize"
    /\ calls' = <<>>
    /\ entry' = Snapshot
    /\ entry_files' = files
    /\ cmdline' = cmd
    /\ req' = RequestedNames(cmd.plugin)
    /\ autoreq' = autostart
    /\ UNCHANGED <<registry, loopvars, idx, in_loop, passes, prev, order>>

\* The process ends and the program is run again: a new application object,
\* the same file system.
Restart ==
    /\ pc = "done"
    /\ plugins' = << >>
    /\ initialized_plugins' = <<>>
    /\ running_plugins' = <<>>
    /\ pc' = "idle"
    /\ todo' = <<>> /\ autos' = <<>> /\ req' = <<>> /\ autoreq' = <<>>
    /\ op' = "none"
    /\ result' = "none"
    /\ calls' = <<>>
    /\ entry' = NoSnapshot
    /\ app_options' = <<>>
    /\ cfg_options' = <<>>
    /\ data_dir' = <<>>
    /\ order' = <<>>
    /\ cmdline' = NoCommandLine
    /\ config_file_name' = <<>>
    /\ described' = <<>>
    /\ printed' = <<>>
    /\ entry_files' = << >>
    /\ UNCHANGED <<files, loopvars, idx, in_loop, passes, prev>>

\* ------------------------------------------------------------------ spec
Init ==
    /\ plugins = << >>
    /\ initialized_plugins = <<>>
    /\ running_plugins = <<>>
    /\ stopped = FALSE
    /\ armed = {}
    /\ ready = {}
    /\ pc = "idle"
    /\ idx = 1
    /\ todo = <<>>
    /\ autos = <<>>
    /\ op = "none"
    /\ result = "none"
    /\ calls = <<>>
    /\ req = <<>>
    /\ autoreq = <<>>
    /\ entry = NoSnapshot
    /\ in_loop = FALSE
    /\ passes = 0
    /\ prev = "other"
    /\ app_options = <<>>
    /\ cfg_options = <<>>
    /\ data_dir = <<>>
    /\ files = << >>
    /\ order = <<>>
    /\ cmdline = NoCommandLine
    /\ config_file_name = <<>>
    /\ described = <<>>
    /\ printed = <<>>
    /\ entry_files = << >>

\* An autostart entry points to a registered plugin or is null.
AutostartLists ==
    UNION {[1..n -> DOMAIN plugins \cup {NULL}] : n \in 0..MaxAuto}

Next ==
    \/ \E p \in PluginNames : RegisterPlugin(p)
    \/ \E help \in BOOLEAN, args \in ArgLists, autostart \in AutostartLists :
          Initialize(help, args, autostart)
    \/ InitializeName
    \/ InitializeAutostart
    \/ InitializeReturn
    \/ Startup
    \/ StartupStep
    \/ Shutdown
    \/ ShutdownCall
    \/ ShutdownErase
    \/ Quit
    \/ Exec
    \/ \E s \in Signals : Signal(s)
    \/ \E s \in Signals : LoopHandler(s)
    \/ LoopReturn
    \/ Return

Spec == Init /\ [][Next]_vars

\* Once exec() is in the loop the host thread keeps running: the loop
\* dispatches queued handlers and the shutdown pass runs to its end.
HostProgress ==
    \/ \E s \in Signals : LoopHandler(s)
    \/ LoopReturn
    \/ ShutdownCall
    \/ ShutdownErase

LiveSpec == Init /\ [][Next]_vars /\ WF_vars(HostProgress)

\* One run of the program after the other on the same file system: the host
\* registers its plugins, calls initialize once, and the process ends.
ConfigNext ==
    \/ \E p \in PluginNames : RegisterInOrder(p)
    \/ \E cmd \in CommandLines, autostart \in AutostartLists :
          InitializeImpl(cmd, autostart)
    \/ InitializeName
    \/ InitializeAutostart
    \/ InitializeReturn
    \/ Restart

ConfigSpec == Init /\ [][ConfigNext]_vars

\* ---------------------------------------------------------------- claims
Ended(o, r) == pc = "done" /\ op = o /\ result = r

\* The state plugin p had when the operation began.
EntryState(p) == IF p \in DOMAIN entry.plugins THEN entry.plugins[p] ELSE "absent"

\* The shutdown calls a pass over the started sequence `running` owes.
ShutdownCallsFor(running) ==
    [k \in 1..Len(running) |-> <<"shutdown", Reverse(running)[k]>>]

StartupCallsFor(initialized) ==
    [k \in 1..Len(initialized) |-> <<"startup", initialized[k]>>]

\* C1: shutdown() calls shutdown on the plugins of the started sequence in
\* exactly the reverse of the order they were started, each exactly once:
\* while the first loop runs the calls made are the first idx-1 of the reverse
\* order, and when shutdown() returns they are the whole reverse order.
C1_ShutdownReverseOrder ==
    /\ NoDuplicates(running_plugins)
    /\ pc = "shutdown_calls" =>
          /\ IsPrefix(calls, ShutdownCallsFor(entry.running))
          /\ Len(calls) = idx - 1
    /\ (pc = "shutdown_erase" \/ Ended("shutdown", "returned")
                              \/ Ended("exec", "returned")) =>
          calls = ShutdownCallsFor(entry.running)
    /\ (Ended("shutdown", "plugin_error") \/ Ended("exec", "plugin_error")) =>
          IsPrefix(calls, ShutdownCallsFor(entry.running))

C1_Witness ==
    /\ Ended("shutdown", "returned")
    /\ entry.running = << <<"B">>, <<"C">>, <<"A">> >>
    /\ calls = << <<"shutdown", <<"A">>>>, <<"shutdown", <<"C">>>>,
                  <<"shutdown", <<"B">>>> >>

\* C2: startup() calls startup on every plugin of the initialized sequence in
\* initialization order, and when it returns without a failure the started
\* sequence equals the initialized sequence.
C2_StartupInInitOrder ==
    /\ pc = "startup" =>
          /\ IsPrefix(calls, StartupCallsFor(entry.initialized))
          /\ Len(calls) = idx - 1
    /\ Ended("startup", "returned") =>
          /\ calls = StartupCallsFor(entry.initialized)
          /\ initialized_plugins = entry.initialized
          /\ running_plugins = initialized_plugins

C2_Witness ==
    /\ Ended("startup", "returned")
    /\ entry.running = <<>>
    /\ running_plugins = << <<"C">>, <<"A">>, <<"B">> >>

\* C3: a plugin's state only moves registered -> initialized -> started, one
\* state at a time; startup is only called on members of the initialized
\* sequence; and a call of initialize or startup on a plugin at or past the
\* target state changes neither a state nor the two sequences.
LastCall(cs) == cs[Len(cs)]

C3_Step ==
    /\ \A p \in DOMAIN plugins \cap DOMAIN plugins' :
          \/ plugins'[p] = plugins[p]
          \/ plugins[p] = "registered" /\ plugins'[p] = "initialized"
          \/ plugins[p] = "initialized" /\ plugins'[p] = "started"
    /\ \A p \in DOMAIN plugins' \ DOMAIN plugins : plugins'[p] = "registered"
    /\ Len(calls') = Len(calls) + 1 =>
          LET call == LastCall(calls') IN
          /\ call[1] = "startup" => call[2] \in Range(initialized_plugins)
          /\ (call[1] = "startup" /\ get_state(call[2]) # "initialized") =>
                UNCHANGED registry
          /\ (call[1] = "initialize" /\ get_state(call[2]) # "registered") =>
                UNCHANGED registry

C3_ForwardOnly == [][C3_Step]_vars

C3_Witness ==
    /\ Ended("initialize", "true")
    /\ \E k \in 1..Len(calls) :
          /\ calls[k][1] = "initialize"
          /\ EntryState(calls[k][2]) = "started"
          /\ get_state(calls[k][2]) = "started"
    /\ initialized_plugins = entry.initialized

\* C4: between operations, and inside every operation but the erase loop of
\* shutdown(), the started plugins are among the initialized plugins, which
\* are among the plugins of the registry.
C4_SubsetChain ==
    pc # "shutdown_erase" =>
        /\ Range(running_plugins) \subseteq Range(initialized_plugins)
        /\ Range(initialized_plugins) \subseteq DOMAIN plugins

C4_Witness ==
    /\ Ended("startup", "plugin_error")
    /\ Len(running_plugins) = 1
    /\ Len(initialized_plugins) = 2
    /\ Cardinality(DOMAIN plugins) = 3

\* C5: the initialized sequence never holds a plugin twice, and at every
\* point of initialize it is the sequence at entry followed by the plugins
\* visited so far that were still registered, each at its first visit.
RECURSIVE FirstVisits(_, _)
FirstVisits(visited, acc) ==
    IF visited = <<>> THEN acc
    ELSE LET n == Head(visited) IN
         IF EntryState(n) = "registered" /\ n \notin Range(acc)
         THEN FirstVisits(Tail(visited), Append(acc, n))
         ELSE FirstVisits(Tail(visited), acc)

Visited ==
    SubSeq(req, 1, Len(req) - Len(todo))
        \o SubSeq(autoreq, 1, Len(autoreq) - Len(autos))

C5_InitializedSequence ==
    /\ NoDuplicates(initialized_plugins)
    /\ (op = "initialize" /\ result # "false") =>
          initialized_plugins = entry.initialized \o FirstVisits(Visited, <<>>)

C5_Witness ==
    /\ Ended("initialize", "true")
    /\ req = << <<"B">>, <<"A">> >>
    /\ autoreq = << <<"B">> >>
    /\ entry.initialized = << <<"C">> >>
    /\ initialized_plugins = << <<"C">>, <<"B">>, <<"A">> >>

C5_WitnessRepeated ==
    /\ Ended("initialize", "true")
    /\ req = << <<"A">>, <<"A">> >>
    /\ autoreq = << <<"A">> >>
    /\ initialized_plugins = << <<"A">> >>

\* C6: a shutdown() that directly follows a shutdown() that returned finds
\* the registry and both sequences empty, calls no plugin and changes nothing.
C6_SecondShutdownNoop ==
    (op = "shutdown" /\ prev = "shutdown") =>
        /\ plugins = << >>
        /\ initialized_plugins = <<>>
        /\ running_plugins = <<>>
        /\ calls = <<>>
        /\ entry = NoSnapshot
        /\ result \in {"running", "returned"}

C6_Witness == Ended("shutdown", "returned") /\ prev = "shutdown"

\* C7: while io_serv->run() has not returned, no plugin has been called and
\* the registry is as exec() found it, whatever quit() and the signal handlers
\* did; after it has returned exec() runs exactly one shutdown pass.
C7_ShutdownAfterLoop ==
    /\ in_loop =>
          /\ pc = "loop"
          /\ op = "exec"
          /\ calls = <<>>
          /\ passes = 0
          /\ Snapshot = entry
    /\ (op = "exec" /\ ~in_loop) =>
          /\ pc \in {"shutdown_calls", "shutdown_erase", "done"}
          /\ stopped
          /\ passes = 1
    /\ op \in {"initialize", "startup"} => passes = 0
    /\ op = "shutdown" => passes = 1

C7_Witness ==
    /\ pc = "loop"
    /\ stopped
    /\ armed = {"SIGTERM"}
    /\ ready = {}
    /\ Len(running_plugins) = 2
    /\ calls = <<>>

\* C8: once a signal handler is queued or a stop is requested while exec() is
\* in the loop, exec() ends: it returns, having called shutdown on every
\* started plugin in reverse start order, unless one of these shutdown calls
\* itself fails, which ends exec() with that failure.
StopPending == pc = "loop" /\ (ready # {} \/ stopped)

ExecEnded ==
    \/ /\ Ended("exec", "returned")
       /\ calls = ShutdownCallsFor(entry.running)
    \/ /\ Ended("exec", "plugin_error")
       /\ calls # <<>>
       /\ IsPrefix(calls, ShutdownCallsFor(entry.running))

C8_SignalLeadsToShutdown == StopPending ~> ExecEnded

C8_Witness ==
    /\ Ended("exec", "returned")
    /\ ready = {}
    /\ armed = {"SIGTERM"}
    /\ entry.running = << <<"A">>, <<"B">> >>
    /\ calls = << <<"shutdown", <<"B">>>>, <<"shutdown", <<"A">>>> >>

\* C9: when shutdown() has returned, the registry and both sequences are
\* empty and find_plugin returns null for every name; and only shutdown()
\* ever takes a plugin out of the registry.
AnyName == PluginNames \cup {<<>>, <<"A", "B">>}

C9_Emptied ==
    (Ended("shutdown", "returned") \/ Ended("exec", "returned")) =>
        /\ plugins = << >>
        /\ initialized_plugins = <<>>
        /\ running_plugins = <<>>
        /\ \A name \in AnyName : find_plugin(name) = NULL

C9_OnlyShutdownRemoves ==
    (DOMAIN plugins \ DOMAIN plugins' # {}) => pc = "shutdown_erase"

C9_RegistryCleared == []C9_Emptied /\ [][C9_OnlyShutdownRemoves]_vars

C9_Witness ==
    /\ Ended("shutdown", "returned")
    /\ entry.running = << <<"A">> >>
    /\ entry.initialized = << <<"A">>, <<"B">> >>
    /\ EntryState(<<"C">>) = "registered"

\* C10: a name of the plugin option that is not in the registry ends
\* initialize with NotFound when it is reached: find_plugin returns null for
\* it, the names before it are the only ones initialize was called for, no
\* autostart entry is visited, and initialize returns true only if every
\* requested name was found.
C10_NotFoundStops ==
    /\ (op = "initialize" /\ result = "not_found") =>
          /\ pc = "done"
          /\ todo # <<>>
          /\ find_plugin(Head(todo)) = NULL
          /\ todo = SubSeq(req, Len(req) - Len(todo) + 1, Len(req))
          /\ calls = [k \in 1..(Len(req) - Len(todo)) |-> <<"initialize", req[k]>>]
          /\ autos = autoreq
    /\ (op = "initialize" /\ result \in {"running", "true", "plugin_error"}) =>
          \A k \in 1..(Len(req) - Len(todo)) : req[k] \in DOMAIN plugins
    /\ Ended("initialize", "true") => todo = <<>>

C10_Witness ==
    /\ Ended("initialize", "not_found")
    /\ req = << <<"A">>, <<>>, <<"B">> >>
    /\ calls = << <<"initialize", <<"A">>>> >>
    /\ get_state(<<"A">>) = "initialized"
    /\ get_state(<<"B">>) = "registered"
    /\ autoreq = << <<"C">> >>
    /\ get_state(<<"C">>) = "registered"

\* C11: when --help is on the command line, initialize prints the merged
\* option schema (the groups of every registered plugin that declares
\* options, then the application's own) and returns false; it makes no call
\* on a plugin, and the registry, the initialized and the started sequence
\* are what they were -- empty sequences stay empty -- whatever the plugin
\* option and the autostart list hold.
C11_HelpNoLifecycleCall ==
    (op = "initialize" /\ cmdline.help) =>
       /\ pc = "done"
       /\ result = "false"
       /\ printed = app_options
       /\ \A p \in DOMAIN plugins :
             /\ declared_cfg(p) # <<>> => plugin_cfg_opts(p) \in Range(printed)
             /\ declared_cli(p) # <<>> => plugin_cli_opts(p) \in Range(printed)
       /\ {app_cfg_opts, app_cli_opts} \subseteq Range(printed)
       /\ calls = <<>>
       /\ Snapshot = entry
       /\ initialized_plugins = <<>>
       /\ running_plugins = <<>>

C11_Witness ==
    /\ Ended("initialize", "false")
    /\ cmdline.help
    /\ cmdline.plugin = << <<"B", ",", "A">> >>
    /\ autoreq = << <<"C">> >>
    /\ DOMAIN plugins = PluginNames
    /\ Len(printed) = 6

\* C12 as stated: the config file initialize checks, writes when missing and
\* parses is the path of the config option -- the option's value when it is
\* absolute, the data directory followed by the value when it is relative.
C12_ConfigOptionPathUsed ==
    (op = "initialize" /\ ~cmdline.help) =>
       /\ config_file_name =
             config_option_path(data_dir, stored(cmdline.config, default_config))
       /\ exists(config_file_name)

\* Two registered plugins declare an option of the same long name.
Collision(dom) ==
    \E p, q \in dom :
       /\ p # q
       /\ \E a \in Range(declared_cfg(p) \o declared_cli(p)),
             b \in Range(declared_cfg(q) \o declared_cli(q)) :
             a.long_name = b.long_name

\* C13 as stated: when two registered plugins declare an option of the same
\* long name, initialize ends with a configuration error, the file system is
\* as it was, and no plugin got a call or changed state.
C13_CollisionFailsFirst ==
    (op = "initialize" /\ Collision(DOMAIN entry.plugins)) =>
       /\ pc = "done"
       /\ result = "options_error"
       /\ files = entry_files
       /\ calls = <<>>
       /\ Snapshot = entry

\* C14: initialize never changes a file that exists: every file it found has
\* the content it had, and the only change it makes to the file system is a
\* new file at the config path, written when none was there.  A second run
\* that finds the file of the first run leaves it as it is, whatever options
\* the second run's schema holds.
C14_NeverOverwrites ==
    op = "initialize" =>
       /\ \A path \in DOMAIN entry_files :
             path \in DOMAIN files /\ files[path] = entry_files[path]
       /\ files # entry_files =>
             /\ config_file_name \notin DOMAIN entry_files
             /\ DOMAIN files = DOMAIN entry_files \cup {config_file_name}
             /\ files[config_file_name] = config_text(cfg_options)

C14_Witness ==
    /\ Ended("initialize", "true")
    /\ config_file_name \in DOMAIN entry_files
    /\ files = entry_files
    /\ files[config_file_name] = config_text(<<app_cfg_opts>>)
    /\ config_text(cfg_options) # files[config_file_name]
    /\ DOMAIN plugins = {<<"A">>}

\* C15 as stated: initialize asks the registered plugins for their options
\* in the order they were registered, and their groups stand in the merged
\* schema in that order, before the application's own groups.
C15_RegistrationOrder ==
    op = "initialize" =>
       /\ described = order
       /\ app_options =
             Concat([k \in 1..Len(order) |-> app_groups_of(order[k])])
             \o <<app_cfg_opts, app_cli_opts>>

\* C16: when the startup call of the k-th plugin of the initialized sequence
\* fails, the failure leaves startup() at once and nothing is rolled back:
\* the calls made are the startup calls of plugins 1..k and no shutdown call,
\* plugins 1..k-1 are started and make up the started sequence, and plugins
\* k+1..n got no call and are still initialized and not started.
C16_StartupFailureNoRollback ==
    Ended("startup", "plugin_error") =>
       LET k == Len(calls)
           n == Len(entry.initialized) IN
       /\ k \in 1..n
       /\ calls = SubSeq(StartupCallsFor(entry.initialized), 1, k)
       /\ initialized_plugins = entry.initialized
       /\ running_plugins = SubSeq(entry.initialized, 1, k - 1)
       /\ \A j \in 1..(k - 1) : get_state(entry.initialized[j]) = "started"
       /\ EntryState(entry.initialized[k]) = "initialized"
       /\ \A j \in (k + 1)..n :
             /\ get_state(entry.initialized[j]) = "initialized"
             /\ entry.initialized[j] \notin Range(running_plugins)

C16_Witness ==
    /\ Ended("startup", "plugin_error")
    /\ entry.initialized = << <<"B">>, <<"A">>, <<"C">> >>
    /\ entry.running = <<>>
    /\ calls = << <<"startup", <<"B">>>>, <<"startup", <<"A">>>> >>
    /\ running_plugins = << <<"B">> >>

\* C17 as stated: however the shutdown calls of the plugins go, when
\* shutdown() is over every plugin of the started sequence got its shutdown
\* call and the two sequences and the registry are empty.
C17_SweepCompletes ==
    (pc = "done" /\ op \in {"shutdown", "exec"}) =>
       /\ calls = ShutdownCallsFor(entry.running)
       /\ running_plugins = <<>>
       /\ initialized_plugins = <<>>
       /\ plugins = << >>

\* C17, amended: a failure of one plugin's shutdown call leaves shutdown() at
\* once: the calls made are the first k of the reverse start order, the
\* plugins started before the failing one got no shutdown call, and the two
\* sequences and the registry are as they were before shutdown() began.
C17_ShutdownFailureAborts ==
    (Ended("shutdown", "plugin_error") \/ Ended("exec", "plugin_error")) =>
       LET k == Len(calls) IN
       /\ k \in 1..Len(entry.running)
       /\ calls = SubSeq(ShutdownCallsFor(entry.running), 1, k)
       /\ \A j \in 1..(Len(entry.running) - k) :
             <<"shutdown", entry.running[j]>> \notin Range(calls)
       /\ Snapshot = entry

C17_Witness ==
    /\ Ended("shutdown", "plugin_error")
    /\ entry.running = << <<"A">>, <<"B">>, <<"C">> >>
    /\ calls = << <<"shutdown", <<"C">>>>, <<"shutdown", <<"B">>>> >>
    /\ running_plugins = entry.running
    /\ DOMAIN plugins = PluginNames

\* C18: shutdown() has two phases.  While the shutdown calls are made the
\* registry and the two sequences are as they were when shutdown() began, so
\* every registered plugin can still be found; the removals begin only when
\* every started plugin got its call, they take the started plugins out of
\* the registry in reverse start order, and until the final clear every
\* other plugin is still registered.
C18_TwoPhaseShutdown ==
    /\ pc = "shutdown_calls" => Snapshot = entry
    /\ pc = "shutdown_erase" =>
          /\ calls = ShutdownCallsFor(entry.running)
          /\ running_plugins = entry.running
          /\ initialized_plugins = entry.initialized
          /\ DOMAIN plugins = DOMAIN entry.plugins \
                {Reverse(entry.running)[k] : k \in 1..(idx - 1)}
          /\ \A p \in DOMAIN plugins : plugins[p] = entry.plugins[p]

C18_Witness ==
    /\ pc = "shutdown_erase"
    /\ idx = 2
    /\ entry.running = << <<"B">>, <<"A">> >>
    /\ entry.initialized = << <<"B">>, <<"A">>, <<"C">> >>
    /\ DOMAIN plugins = {<<"B">>, <<"C">>}

\* C19: a plugin that is initialized but was never started gets no shutdown
\* call during shutdown() (every call made is the shutdown of a started
\* plugin), and when shutdown() returns it is in neither the initialized
\* sequence nor the registry.
C19_NeverStartedNotCalled ==
    /\ (op \in {"shutdown", "exec"} /\ pc # "idle") =>
          \A k \in 1..Len(calls) :
             /\ calls[k][1] = "shutdown"
             /\ calls[k][2] \in Range(entry.running)
    /\ (Ended("shutdown", "returned") \/ Ended("exec", "returned")) =>
          \A p \in Range(entry.initialized) \ Range(entry.running) :
             /\ <<"shutdown", p>> \notin Range(calls)
             /\ p \notin Range(initialized_plugins)
             /\ find_plugin(p) = NULL

C19_Witness ==
    /\ Ended("shutdown", "returned")
    /\ entry.initialized = << <<"A">>, <<"B">> >>
    /\ entry.running = << <<"A">> >>
    /\ EntryState(<<"B">>) = "initialized"
    /\ calls = << <<"shutdown", <<"A">>>> >>

\* C20: within one initialize call the names of the plugin option are
\* visited, in the order listed, before any autostart entry is looked at;
\* an autostart entry gets an initialize call only if it is not null and its
\* plugin is still registered; so every plugin this call appends for the
\* plugin option stands before every plugin it appends for autostart alone.
NewlyInitialized ==
    SubSeq(initialized_plugins, Len(entry.initialized) + 1,
           Len(initialized_plugins))

C20_RequestedBeforeAutostart ==
    (op = "initialize" /\ result # "false") =>
       /\ todo # <<>> =>
             /\ autos = autoreq
             /\ \A k \in 1..Len(calls) :
                   k <= Len(req) /\ calls[k] = <<"initialize", req[k]>>
       /\ todo = <<>> =>
             /\ Len(calls) >= Len(req)
             /\ \A k \in 1..Len(req) : calls[k] = <<"initialize", req[k]>>
             /\ \A k \in (Len(req) + 1)..Len(calls) :
                   /\ calls[k][2] \in Range(autoreq) \ {NULL}
                   /\ calls[k][2] \notin Range(req)
                   /\ EntryState(calls[k][2]) = "registered"
       /\ IsPrefix(entry.initialized, initialized_plugins)
       /\ \A i, j \in 1..Len(NewlyInitialized) :
             (i < j /\ NewlyInitialized[j] \in Range(req)) =>
                NewlyInitialized[i] \in Range(req)

C20_Witness ==
    /\ Ended("initialize", "true")
    /\ req = << <<"B">>, <<"A">> >>
    /\ autoreq = << <<"C">> >>
    /\ entry.initialized = <<>>
    /\ initialized_plugins = << <<"B">>, <<"A">>, <<"C">> >>

====
